---- MODULE Spec2Model ----
(***************************************************************************)
(* Model of src/importer.js: the snapshot importer job.  One run of the    *)
(* job reads up to 20 pending rows of reg_documents, drives one browser    *)
(* page over them one at a time, and for each either touches the row       *)
(* (unchanged text), or uploads a PDF, updates the row and inserts a row   *)
(* of reg_document_versions (changed text), or marks the row as error      *)
(* (a step threw).  The store client reports a failed query, update or     *)
(* insert as a returned error value; the browser and the explicit          *)
(* `throw upErr` raise.                                                    *)
(***************************************************************************)
EXTENDS Integers, Sequences, FiniteSets, TLC

(***************************************************************************)
(* Bounds of the model.                                                    *)
(***************************************************************************)
NumDocs == 2        \* rows of reg_documents in the small store (Init)
MaxRuns == 2        \* runs of the job in one behaviour
MaxTroubles == 2    \* failed steps and external edits of the store in one
                    \* behaviour of the small store
CapExtra == 1       \* rows beyond the batch limit in the large store (InitCap)
CapTroubles == 1    \* the same in one behaviour of the large store

\* .limit(20)
BatchLimit == 20

\* texts a monitored page can show; "" is a page without a body
Texts == {"", "A"}

NULL == "NULL"      \* SQL NULL of a text column (falsy in JavaScript)
NoPath == <<>>      \* SQL NULL of snapshot_path

VARIABLES
    docs,        \* table reg_documents: id -> row
    versions,    \* table reg_document_versions: rows in insertion order
    storage,     \* bucket "regulations": path -> object
    site,        \* the web: url -> text the page shows now
    order,       \* store-defined order of the rows of reg_documents
    pc,          \* position of the process
    batch,       \* const docs: the rows as fetched (each with its id)
    idx,         \* position of the for-of loop in batch
    loc,         \* locals of the loop body
    page,        \* text loaded in the browser page
    browser,     \* [state, launches, pages, closes]
    exitCode,    \* exit code of the last run, -1 while none has ended
    now,         \* the clock read by new Date(): it ticks between two runs
    runs,        \* runs started
    budget       \* failed steps and external edits of the store that the
                 \* environment may still cause

vars == <<docs, versions, storage, site, order, pc, batch, idx, loc, page,
          browser, exitCode, now, runs, budget>>

----------------------------------------------------------------------------
(***************************************************************************)
(* Pure helpers.                                                           *)
(***************************************************************************)

\* crypto.createHash("sha256").update(text, "utf8").digest("hex"), abbreviated
\* to the first 8 hex digits of the real digests.
sha256(text) ==
    CASE text = ""  -> "e3b0c442"
      [] text = "A" -> "559aead0"
      [] OTHER      -> "ffffffff"

\* document.body?.innerText || ""
InnerText(p) == IF p = NULL THEN "" ELSE p

\* page.pdf(...): the rendering of what the page shows
PdfOf(p) == <<"pdf", p>>

\* page.title()
TitleOf(p) == <<"title", p>>

\* the path without the version directory
PathOfFlat(id, v) == <<id, "/snapshot.pdf">>

\* `${doc.id}/v${nextVersion}/snapshot.pdf`
PathOf(id, v) == <<id, "/v", v, "/snapshot.pdf">>

\* x || 1 on a version number (0 stands for NULL and for 0: both falsy)
OrOne(v) == IF v = 0 THEN 1 ELSE v

\* JavaScript truthiness of a stored content_hash
Truthy(h) == h # NULL /\ h # ""

Min(a, b) == IF a < b THEN a ELSE b

----------------------------------------------------------------------------
(***************************************************************************)
(* The store and the change detector.                                      *)
(***************************************************************************)

Ids == DOMAIN docs

\* a row as the ingestion process creates it
NewRow(id, url, v) ==
    [id |-> id, canonical_url |-> url, status |-> "pending",
     latest_version |-> v,
     content_hash |-> NULL, full_text |-> NULL, title |-> NoPath,
     snapshot_path |-> NoPath, retrieved_at |-> 0, last_checked_at |-> 0,
     updated_at |-> 0]

\* .eq("status", "pending")
IsPending(id) == docs[id].status = "pending"

\* the query without its limit
LimitNone(rows, n) == rows

\* .limit(n)
Limit(rows, n) == SubSeq(rows, 1, Min(Len(rows), n))

\* sb.from("reg_documents").select("*").eq("status", "pending").limit(20)
SelectPending ==
    LET ids == Limit(SelectSeq(order, IsPending), BatchLimit)
    IN  [i \in 1..Len(ids) |-> docs[ids[i]]]

\* let changed = doc.content_hash ? doc.content_hash !== hash : true;
\* if (!doc.content_hash) changed = true;
Changed(doc, hash) ==
    IF Truthy(doc.content_hash) THEN doc.content_hash # hash ELSE TRUE

\* the version is incremented whether or not a hash was stored
NextVersionAlways(doc) == OrOne(doc.latest_version) + 1

\* let nextVersion = doc.latest_version || 1;
\* if (doc.content_hash) nextVersion = (doc.latest_version || 1) + 1;
NextVersion(doc) ==
    IF Truthy(doc.content_hash)
    THEN OrOne(doc.latest_version) + 1
    ELSE OrOne(doc.latest_version)

\* the unchanged branch stamps retrieved_at as well
TouchFieldsStamp(row) ==
    [row EXCEPT !.status = "active", !.last_checked_at = now,
                !.retrieved_at = now]

\* the unchanged branch increments the version as well
TouchFieldsBump(row) ==
    [row EXCEPT !.status = "active", !.last_checked_at = now,
                !.latest_version = @ + 1]

\* the update of the unchanged branch
TouchFields(row) ==
    [row EXCEPT !.status = "active", !.last_checked_at = now]

\* the update of the changed branch
CaptureFields(row, l) ==
    [row EXCEPT !.title = l.title, !.status = "active",
                !.latest_version = l.nextVersion, !.snapshot_path = l.path,
                !.full_text = l.text, !.content_hash = l.hash,
                !.retrieved_at = now, !.last_checked_at = now,
                !.updated_at = now]

\* the catch block clears the stored hash as well
ErrorFieldsClear(row) ==
    [row EXCEPT !.status = "error", !.last_checked_at = now,
                !.updated_at = now, !.content_hash = NULL]

\* the catch block puts the document back in the queue
ErrorFieldsRetry(row) ==
    [row EXCEPT !.status = "pending", !.last_checked_at = now,
                !.updated_at = now]

\* the update of the catch block
ErrorFields(row) ==
    [row EXCEPT !.status = "error", !.last_checked_at = now,
                !.updated_at = now]

\* the row inserted into reg_document_versions
VersionRow(doc, l) ==
    [reg_document_id |-> doc.id, version |-> l.nextVersion,
     snapshot_path |-> l.path, full_text |-> l.text, content_hash |-> l.hash,
     retrieved_at |-> now]

\* .upload(path, pdfBuffer, {upsert: true})
Upsert(bucket, path, object) ==
    [p \in DOMAIN bucket \cup {path} |->
        IF p = path THEN object ELSE bucket[p]]

----------------------------------------------------------------------------
(***************************************************************************)
(* Control.                                                                *)
(***************************************************************************)

NoLocals == [text |-> NULL, hash |-> NULL, changed |-> FALSE,
             nextVersion |-> 0, pdf |-> <<>>, path |-> NoPath,
             title |-> NoPath]

\* the element of docs the loop is at
Doc == batch[idx]

\* no try block around the loop body: the exception leaves main()
OnThrowUncaught == "rejected"

\* where an exception raised inside the try block lands
OnThrow == "catch"

\* the error of the query is not thrown: docs is null and main() returns
RejectedIgnored == "return"

\* where an exception raised outside the try block lands: main() rejects
Rejected == "rejected"

\* the environment may make a step fail / may edit the store or the web
CanFail == budget > 0
CanEdit == budget > 0
Failed == budget - 1
Edited == budget - 1

\* ok: the step succeeds; otherwise it fails, if the environment may
Outcome(ok) == /\ ok \/ CanFail
               /\ budget' = IF ok THEN budget ELSE Failed

\* the loop stays on the document it has just processed
NextDocAgain == /\ idx' = idx
                /\ pc' = "goto"
                /\ loc' = NoLocals

\* the end of one iteration of for (const doc of docs)
NextDoc == /\ idx' = idx + 1
           /\ pc' = IF idx < Len(batch) THEN "goto" ELSE "close"
           /\ loc' = NoLocals

----------------------------------------------------------------------------
(***************************************************************************)
(* Initial states.                                                         *)
(***************************************************************************)

Idle == /\ versions = <<>>
        /\ storage = <<>>
        /\ pc = "idle"
        /\ batch = <<>>
        /\ idx = 0
        /\ loc = NoLocals
        /\ page = NULL
        /\ browser = [state |-> "none", launches |-> 0, pages |-> 0, closes |-> 0]
        /\ exitCode = -1
        /\ now = 0
        /\ runs = 0

\* a small store of fresh pending rows, each with a page of its own, with
\* any versions and any web content; the rows being interchangeable, the
\* store's order is taken to be by id
Init == /\ \E v \in [1..NumDocs -> {0, 1}] :
              docs = [id \in 1..NumDocs |-> NewRow(id, id, v[id])]
        /\ site \in [1..NumDocs -> Texts]
        /\ order = [i \in 1..NumDocs |-> i]
        /\ budget = MaxTroubles
        /\ Idle

\* a store with more pending rows than one batch holds, all of the same page
InitCap == /\ docs = [id \in 1..(BatchLimit + CapExtra) |-> NewRow(id, 1, 1)]
           /\ site \in [{1} -> Texts]
           /\ order = [i \in 1..(BatchLimit + CapExtra) |-> i]
           /\ budget = CapTroubles
           /\ Idle

----------------------------------------------------------------------------
(***************************************************************************)
(* The process: module top level and main().                               *)
(***************************************************************************)

\* lines 5-12 and 115: the configuration check, then main() is called
Start ==
    /\ pc \in {"idle", "exited"}
    /\ runs < MaxRuns
    /\ runs' = runs + 1
    /\ exitCode' = -1
    /\ now' = now + 1
    /\ \E configured \in BOOLEAN :
          /\ Outcome(configured)
          /\ pc' = IF configured THEN "fetch" ELSE "uncaught"
    /\ UNCHANGED <<docs, versions, storage, site, order, batch, idx, loc,
                   page, browser>>

\* lines 20-30: the query for the pending rows
Fetch ==
    /\ pc = "fetch"
    /\ \E ok \in BOOLEAN :
          /\ Outcome(ok)
          /\ IF ~ok
             THEN /\ pc' = Rejected
                  /\ UNCHANGED batch
             ELSE /\ batch' = SelectPending
                  /\ pc' = IF Len(SelectPending) = 0 THEN "return" ELSE "launch"
    /\ UNCHANGED <<docs, versions, storage, site, order, idx, loc, page,
                   browser, exitCode, now, runs>>

\* line 32: chromium.launch()
Launch ==
    /\ pc = "launch"
    /\ \E ok \in BOOLEAN :
          /\ Outcome(ok)
          /\ IF ok
             THEN /\ browser' = [browser EXCEPT !.state = "open",
                                                !.launches = @ + 1]
                  /\ pc' = "newPage"
             ELSE /\ pc' = Rejected
                  /\ UNCHANGED browser
    /\ UNCHANGED <<docs, versions, storage, site, order, batch, idx, loc,
                   page, exitCode, now, runs>>

\* lines 33-35: browser.newPage(), then the loop is entered
NewPage ==
    /\ pc = "newPage"
    /\ \E ok \in BOOLEAN :
          /\ Outcome(ok)
          /\ IF ok
             THEN /\ browser' = [browser EXCEPT !.pages = @ + 1]
                  /\ idx' = 1
                  /\ pc' = "goto"
             ELSE /\ pc' = Rejected
                  /\ UNCHANGED <<browser, idx>>
    /\ UNCHANGED <<docs, versions, storage, site, order, batch, loc, page,
                   exitCode, now, runs>>

\* lines 36-39: page.goto(doc.canonical_url, ...)
Goto ==
    /\ pc = "goto"
    /\ \E ok \in BOOLEAN :
          /\ Outcome(ok)
          /\ IF ok
             THEN /\ page' = site[Doc.canonical_url]
                  /\ pc' = "evaluate"
             ELSE /\ pc' = OnThrow
                  /\ UNCHANGED page
    /\ UNCHANGED <<docs, versions, storage, site, order, batch, idx, loc,
                   browser, exitCode, now, runs>>

\* lines 42-51 and 63: the text, its hash and the change decision
Evaluate ==
    /\ pc = "evaluate"
    /\ \E ok \in BOOLEAN :
          /\ Outcome(ok)
          /\ IF ok
             THEN LET text == InnerText(page)
                      hash == sha256(text)
                      changed == Changed(Doc, hash)
                  IN  /\ loc' = [loc EXCEPT !.text = text, !.hash = hash,
                                            !.changed = changed,
                                            !.nextVersion = NextVersion(Doc)]
                      /\ pc' = IF Truthy(Doc.content_hash) /\ ~changed
                               THEN "touch" ELSE "pdf"
             ELSE /\ pc' = OnThrow
                  /\ UNCHANGED loc
    /\ UNCHANGED <<docs, versions, storage, site, order, batch, idx, page,
                   browser, exitCode, now, runs>>

\* lines 53-59: the unchanged branch; the returned error is not read
Touch ==
    /\ pc = "touch"
    /\ \E ok \in BOOLEAN :
          /\ Outcome(ok)
          /\ docs' = IF ok
                     THEN [docs EXCEPT ![Doc.id] = TouchFields(@)]
                     ELSE docs
    /\ NextDoc
    /\ UNCHANGED <<versions, storage, site, order, batch, page, browser,
                   exitCode, now, runs>>

\* line 66: page.pdf(...)
Pdf ==
    /\ pc = "pdf"
    /\ \E ok \in BOOLEAN :
          /\ Outcome(ok)
          /\ IF ok
             THEN /\ loc' = [loc EXCEPT !.pdf = PdfOf(page)]
                  /\ pc' = "upload"
             ELSE /\ pc' = OnThrow
                  /\ UNCHANGED loc
    /\ UNCHANGED <<docs, versions, storage, site, order, batch, idx, page,
                   browser, exitCode, now, runs>>

\* lines 69-73: the upload; a returned error is thrown
Upload ==
    /\ pc = "upload"
    /\ LET path == PathOf(Doc.id, loc.nextVersion)
       IN  \E ok \in BOOLEAN :
              /\ Outcome(ok)
              /\ IF ok
                 THEN /\ storage' = Upsert(storage, path, loc.pdf)
                      /\ loc' = [loc EXCEPT !.path = path]
                      /\ pc' = "title"
                 ELSE /\ pc' = OnThrow
                      /\ loc' = [loc EXCEPT !.path = path]
                      /\ UNCHANGED storage
    /\ UNCHANGED <<docs, versions, site, order, batch, idx, page, browser,
                   exitCode, now, runs>>

\* line 76: page.title()
Title ==
    /\ pc = "title"
    /\ \E ok \in BOOLEAN :
          /\ Outcome(ok)
          /\ IF ok
             THEN /\ loc' = [loc EXCEPT !.title = TitleOf(page)]
                  /\ pc' = "updateDoc"
             ELSE /\ pc' = OnThrow
                  /\ UNCHANGED loc
    /\ UNCHANGED <<docs, versions, storage, site, order, batch, idx, page,
                   browser, exitCode, now, runs>>

\* lines 78-88: the update of the document row; the returned error is not read
UpdateDoc ==
    /\ pc = "updateDoc"
    /\ \E ok \in BOOLEAN :
          /\ Outcome(ok)
          /\ docs' = IF ok
                     THEN [docs EXCEPT ![Doc.id] = CaptureFields(@, loc)]
                     ELSE docs
    /\ pc' = "insertVersion"
    /\ UNCHANGED <<versions, storage, site, order, batch, idx, loc, page,
                   browser, exitCode, now, runs>>

\* lines 91-100: the insert of the version row; the returned error is not read
InsertVersion ==
    /\ pc = "insertVersion"
    /\ \E ok \in BOOLEAN :
          /\ Outcome(ok)
          /\ versions' = IF ok
                         THEN Append(versions, VersionRow(Doc, loc))
                         ELSE versions
    /\ NextDoc
    /\ UNCHANGED <<docs, storage, site, order, batch, page, browser,
                   exitCode, now, runs>>

\* lines 101-109: the catch block; the returned error is not read
Catch ==
    /\ pc = "catch"
    /\ \E ok \in BOOLEAN :
          /\ Outcome(ok)
          /\ docs' = IF ok
                     THEN [docs EXCEPT ![Doc.id] = ErrorFields(@)]
                     ELSE docs
    /\ NextDoc
    /\ UNCHANGED <<versions, storage, site, order, batch, page, browser,
                   exitCode, now, runs>>

\* line 112: browser.close(), then main() resolves
Close ==
    /\ pc = "close"
    /\ \E ok \in BOOLEAN :
          /\ Outcome(ok)
          /\ IF ok
             THEN /\ browser' = [browser EXCEPT !.state = "closed",
                                                !.closes = @ + 1]
                  /\ pc' = "return"
             ELSE /\ pc' = Rejected
                  /\ UNCHANGED browser
    /\ UNCHANGED <<docs, versions, storage, site, order, batch, idx, loc,
                   page, exitCode, now, runs>>

\* the process is gone, and its memory and its browser handle with it
Gone == /\ batch' = <<>>
        /\ idx' = 0
        /\ loc' = NoLocals
        /\ page' = NULL
        /\ browser' = [state |-> "none", launches |-> 0, pages |-> 0, closes |-> 0]

\* the exit code reports the documents that ended in error
ReturnNonZero ==
    /\ pc = "return"
    /\ pc' = "exited"
    /\ exitCode' = IF \E i \in 1..Len(batch) :
                         docs[batch[i].id].status = "error"
                    THEN 1 ELSE 0
    /\ Gone
    /\ UNCHANGED <<docs, versions, storage, site, order, now, runs, budget>>

\* main() resolved: the process ends with exit code 0
Return ==
    /\ pc = "return"
    /\ pc' = "exited"
    /\ exitCode' = 0
    /\ Gone
    /\ UNCHANGED <<docs, versions, storage, site, order, now, runs, budget>>

\* lines 115-118: main() rejected, process.exit(1); line 9: the uncaught
\* exception of the configuration check ends the process with code 1 too
Exit1 ==
    /\ pc \in {"rejected", "uncaught"}
    /\ pc' = "exited"
    /\ exitCode' = 1
    /\ Gone
    /\ UNCHANGED <<docs, versions, storage, site, order, now, runs, budget>>

----------------------------------------------------------------------------
(***************************************************************************)
(* The environment, between two runs of the job.                           *)
(***************************************************************************)

BetweenRuns == pc \in {"idle", "exited"}

\* an external process re-queues a document
Requeue ==
    /\ BetweenRuns /\ CanEdit
    /\ \E id \in Ids :
          /\ docs[id].status # "pending"
          /\ docs' = [docs EXCEPT ![id].status = "pending"]
    /\ budget' = Edited
    /\ UNCHANGED <<versions, storage, site, order, pc, batch, idx, loc, page,
                   browser, exitCode, now, runs>>

\* an operator resets a document's stored hash
ResetHash ==
    /\ BetweenRuns /\ CanEdit
    /\ \E id \in Ids :
          /\ docs[id].content_hash # NULL
          /\ docs' = [docs EXCEPT ![id].content_hash = NULL]
    /\ budget' = Edited
    /\ UNCHANGED <<versions, storage, site, order, pc, batch, idx, loc, page,
                   browser, exitCode, now, runs>>

\* the publisher changes what a page shows
Publish ==
    /\ BetweenRuns
    /\ \E url \in DOMAIN site, t \in Texts :
          /\ site[url] # t
          /\ site' = [site EXCEPT ![url] = t]
    /\ UNCHANGED <<docs, versions, storage, order, pc, batch, idx, loc, page,
                   browser, exitCode, now, runs, budget>>

Next == \/ Start \/ Fetch \/ Launch \/ NewPage \/ Goto \/ Evaluate \/ Touch
        \/ Pdf \/ Upload \/ Title \/ UpdateDoc \/ InsertVersion \/ Catch
        \/ Close \/ Return \/ Exit1
        \/ Requeue \/ ResetHash \/ Publish

Spec == Init /\ [][Next]_vars

SpecCap == InitCap /\ [][Next]_vars

\* the awaited calls of a started run complete: the process keeps stepping
Step == \/ Fetch \/ Launch \/ NewPage \/ Goto \/ Evaluate \/ Touch \/ Pdf
        \/ Upload \/ Title \/ UpdateDoc \/ InsertVersion \/ Catch \/ Close
        \/ Return \/ Exit1

FairSpec == Spec /\ WF_vars(Step)

----------------------------------------------------------------------------
(***************************************************************************)
(* Vocabulary of the properties.                                           *)
(***************************************************************************)

\* the loop body is being executed
InLoop == pc \in {"goto", "evaluate", "touch", "pdf", "upload", "title",
                  "updateDoc", "insertVersion", "catch"}

\* page.goto has been called for the i-th document of the batch
NavigatedTo(i) == idx > i \/ (idx = i /\ pc # "goto")

\* the batch positions a run of the small store can have
Positions == 1..NumDocs

----------------------------------------------------------------------------
(***************************************************************************)
(* C1.  Once the loop over the fetched batch is entered, every document    *)
(* of the batch is eventually navigated to, whatever fails while a         *)
(* document is processed (navigation, extraction, PDF, upload, title, row  *)
(* update, version insert, the error-status write).                        *)
(***************************************************************************)
C1_EveryDocumentAttempted ==
    \A i \in Positions :
        (InLoop /\ i <= Len(batch)) ~> NavigatedTo(i)

\* a step of the first document threw, its error-status write failed too,
\* and the second document has been navigated to all the same
C1_Witness ==
    /\ idx = 2 /\ pc = "evaluate"
    /\ budget = 0
    /\ docs[batch[1].id].status = "pending"
    /\ versions = <<>>

----------------------------------------------------------------------------
\* the row of reg_documents of the document the loop is at
Row == docs[Doc.id]

\* this step ends the iteration for the document the loop is at
IterationEnds == InLoop /\ idx' = idx + 1

\* the store refused the update of the changed branch: the row does not
\* carry the capture when the version row is about to be inserted
UpdateRefused == pc = "insertVersion" /\ Row.content_hash # loc.hash

\* the store refuses the insert of the version row in this step
InsertRefused == pc = "insertVersion" /\ versions' = versions

\* the store refuses the error-status write in this step
ErrorWriteRefused == pc = "catch" /\ docs' = docs

\* the row is marked as error, with both timestamps refreshed, after the step
MarkedError ==
    /\ docs'[Doc.id].status = "error"
    /\ docs'[Doc.id].last_checked_at = now
    /\ docs'[Doc.id].updated_at = now

(***************************************************************************)
(* C2.  When the iteration for a document ends after an error (a step      *)
(* threw, or the store refused the document-row update or the version-row  *)
(* insert), the document's status is error and last_checked_at and         *)
(* updated_at are refreshed.  Read in the claim's favour: the case in      *)
(* which the store refuses the error-status write itself is left out.      *)
(***************************************************************************)
C2_AnyErrorMarksError ==
    [][(IterationEnds /\ ~ErrorWriteRefused
            /\ (pc = "catch" \/ UpdateRefused \/ InsertRefused))
       => MarkedError]_vars

----------------------------------------------------------------------------
\* the text of the page has been fetched and hashed for the document the
\* loop is at
Hashed == InLoop /\ loc.hash # NULL

\* the version rows of a document, in insertion order
RowsOf(id) == SelectSeq(versions, LAMBDA r : r.reg_document_id = id)

(***************************************************************************)
(* C3.  When the job has saved a version (line 100) for a document that    *)
(* had a stored content_hash different from the hash of the fetched text,  *)
(* the row's latest_version is the old value + 1 and exactly one version   *)
(* row, carrying that number, has been created for the document.           *)
(***************************************************************************)
C3_ChangedBumpsVersion ==
    [][(pc = "insertVersion" /\ Truthy(Doc.content_hash)
            /\ Doc.content_hash # loc.hash)
       => /\ docs'[Doc.id].latest_version = Doc.latest_version + 1
          /\ Len(versions') = Len(versions) + 1
          /\ versions'[Len(versions')].reg_document_id = Doc.id
          /\ versions'[Len(versions')].version = Doc.latest_version + 1]_vars

(***************************************************************************)
(* C4.  Once the fetched text of a document hashes to its stored           *)
(* content_hash, the only step taken for it is the update of the unchanged *)
(* branch: it leaves every field of the row but status and last_checked_at *)
(* as it was, writes status = active and last_checked_at = now when the    *)
(* store accepts it, uploads nothing and inserts no version row.           *)
(***************************************************************************)
C4_UnchangedTouchesOnly ==
    [][(Hashed /\ loc.hash = Doc.content_hash)
       => /\ pc = "touch"
          /\ versions' = versions
          /\ storage' = storage
          /\ \A id \in Ids \ {Doc.id} : docs'[id] = docs[id]
          /\ [docs'[Doc.id] EXCEPT !.status = Row.status,
                                   !.last_checked_at = Row.last_checked_at]
                = Row
          /\ \/ docs' = docs
             \/ /\ docs'[Doc.id].status = "active"
                /\ docs'[Doc.id].last_checked_at = now]_vars

\* a row touched by the unchanged branch in a later run than its capture
C4_Witness ==
    \E id \in Ids :
        /\ docs[id].status = "active"
        /\ docs[id].retrieved_at > 0
        /\ docs[id].last_checked_at > docs[id].retrieved_at
        /\ docs[id].updated_at = docs[id].retrieved_at

(***************************************************************************)
(* C5.  For a document fetched with no stored content_hash the decision is *)
(* "changed" whatever the text, and the version computed, uploaded under,  *)
(* written to the document row and written to the version row is the       *)
(* document's latest_version as fetched, or 1 when that is absent.         *)
(***************************************************************************)
C5_FirstCaptureVersion ==
    [][(Hashed /\ ~Truthy(Doc.content_hash))
       => LET v == IF Doc.latest_version = 0 THEN 1 ELSE Doc.latest_version
          IN  /\ loc.changed
              /\ pc # "touch"
              /\ loc.nextVersion = v
              /\ storage' # storage
                    => /\ DOMAIN storage' = DOMAIN storage \cup {PathOf(Doc.id, v)}
                       /\ storage'[PathOf(Doc.id, v)] = loc.pdf
              /\ docs' # docs /\ pc = "updateDoc"
                    => docs'[Doc.id].latest_version = v
              /\ versions' # versions
                    => /\ versions'[Len(versions')].version = v
                       /\ versions'[Len(versions')].snapshot_path
                             = PathOf(Doc.id, v)]_vars

\* a document whose hash was reset is captured again under the version it
\* already has: its row and its second version row carry version 1
C5_Witness ==
    \E id \in Ids :
        /\ docs[id].latest_version = 1
        /\ docs[id].content_hash # NULL
        /\ Len(RowsOf(id)) = 2
        /\ RowsOf(id)[2].version = 1

(***************************************************************************)
(* C6.  The version numbers of the version rows of each document are, in   *)
(* insertion order, 1, 2, ..., n: no gap, no duplicate, starting at 1.     *)
(***************************************************************************)
C6_VersionsContiguous ==
    \A id \in Ids :
        \A k \in 1..Len(RowsOf(id)) : RowsOf(id)[k].version = k

(***************************************************************************)
(* C7.  No step decreases a document's latest_version, and a step that     *)
(* increases it is the document-row update of the changed branch for that  *)
(* document, with a newly computed hash that differs from the stored       *)
(* content_hash.                                                           *)
(***************************************************************************)
C7_VersionMonotone ==
    [][\A id \in Ids :
          /\ docs'[id].latest_version >= docs[id].latest_version
          /\ docs'[id].latest_version > docs[id].latest_version
                => /\ pc = "updateDoc"
                   /\ Doc.id = id
                   /\ Hashed
                   /\ loc.hash # docs[id].content_hash]_vars

\* a changed text has taken a document from version 1 to version 2
C7_Witness ==
    \E id \in Ids :
        /\ docs[id].latest_version = 2
        /\ Len(RowsOf(id)) = 2
        /\ RowsOf(id)[1].content_hash # RowsOf(id)[2].content_hash

\* the fields of a row that mirror its last capture
Capture(row) ==
    <<row.latest_version, row.content_hash, row.full_text, row.title,
      row.snapshot_path, row.retrieved_at>>

\* the steps of the try block that raise
Raising == {"goto", "evaluate", "pdf", "upload", "title"}

(***************************************************************************)
(* C8 as claimed.  When a step of the try block has thrown for a document, *)
(* the catch block leaves the capture fields of its row as they were       *)
(* fetched, inserts no version row, and the row's status becomes error.    *)
(***************************************************************************)
C8_FailureMarksErrorOnly ==
    [][pc = "catch"
       => /\ Capture(docs'[Doc.id]) = Capture(Doc)
          /\ versions' = versions
          /\ docs'[Doc.id].status = "error"]_vars

(***************************************************************************)
(* C8 as amended.  The catch block is entered only from navigation,        *)
(* extraction, PDF rendering, upload or the title read, by a step that     *)
(* writes neither table; no version row is inserted outside the insert     *)
(* step; at the catch block the row still carries the capture fields it    *)
(* was fetched with, and the catch block leaves them so, inserts no        *)
(* version row, and either sets the status to error or, when the store     *)
(* refuses that write, leaves the row as it was.                           *)
(***************************************************************************)
C8_FailureKeepsCapture ==
    [][/\ pc' = "catch" => /\ pc \in Raising
                           /\ docs' = docs
                           /\ versions' = versions
       /\ versions' # versions => pc = "insertVersion"
       /\ pc = "catch"
             => /\ Capture(Row) = Capture(Doc)
                /\ Capture(docs'[Doc.id]) = Capture(Doc)
                /\ versions' = versions
                /\ \/ docs'[Doc.id].status = "error"
                   \/ docs' = docs]_vars

\* the upload failed for a document captured before: its row is marked as
\* error and still carries the earlier capture
C8_Witness ==
    \E id \in Ids :
        /\ docs[id].status = "error"
        /\ docs[id].content_hash # NULL
        /\ docs[id].updated_at > docs[id].retrieved_at
        /\ Len(RowsOf(id)) = 1
        /\ PathOf(id, 2) \notin DOMAIN storage

(***************************************************************************)
(* C9.  A version row is inserted only by the insert step, after the       *)
(* snapshot has been uploaded under the row's path and after the           *)
(* document-row update of the same capture has succeeded: the document row *)
(* then carries the capture's version, hash and path.                      *)
(***************************************************************************)
C9_VersionAfterDocumentRow ==
    [][versions' # versions
       => /\ pc = "insertVersion"
          /\ loc.path \in DOMAIN storage
          /\ storage[loc.path] = loc.pdf
          /\ Row.latest_version = loc.nextVersion
          /\ Row.content_hash = loc.hash
          /\ Row.snapshot_path = loc.path]_vars

(***************************************************************************)
(* C10.  The batch a run fetches holds at most 20 rows, all different, all *)
(* pending in the store when the batch is read; the documents a run        *)
(* attempts are rows of its batch, so at most 20 are attempted.            *)
(***************************************************************************)
C10_BatchCapped ==
    [][/\ batch' # batch
          => /\ Len(batch') <= 20
             /\ \A i \in 1..Len(batch') :
                   /\ batch'[i].id \in Ids
                   /\ docs[batch'[i].id].status = "pending"
                   /\ \A j \in 1..Len(batch') :
                         batch'[i].id = batch'[j].id => i = j
       /\ InLoop' => idx' \in 1..Len(batch') /\ idx' <= 20]_vars

\* 20 documents are fetched, the last of them is being attempted, and a
\* pending document is left out of the batch
C10_Witness ==
    /\ Len(batch) = 20
    /\ idx = 20 /\ pc = "evaluate"
    /\ \E id \in Ids :
          /\ docs[id].status = "pending"
          /\ \A i \in 1..Len(batch) : batch[i].id # id

----------------------------------------------------------------------------
\* a step of the process, as opposed to an edit by the environment
JobStep == ~(BetweenRuns /\ pc' = pc)

\* the step leaves both tables and the bucket as they are
StoreUntouched == docs' = docs /\ versions' = versions /\ storage' = storage

\* the step is a failing call: the environment spends a failure
CallFails == budget' # budget /\ JobStep

(***************************************************************************)
(* C11.  A run writes nothing and launches no browser before and during    *)
(* the query for the pending rows.  When the query fails the run is        *)
(* rejected and ends with exit code 1 with the store untouched and no      *)
(* browser launched; when it returns no row the run returns and ends with  *)
(* exit code 0, likewise.                                                  *)
(***************************************************************************)
C11_QueryFailureAndEmptyBatch ==
    [][/\ pc \in {"idle", "exited", "fetch"} /\ JobStep
          => StoreUntouched /\ browser' = browser /\ browser.launches = 0
       /\ pc = "fetch" /\ CallFails => pc' = "rejected" /\ batch' = <<>>
       /\ pc = "fetch" /\ ~CallFails /\ (\A id \in Ids : docs[id].status # "pending")
          => pc' = "return" /\ batch' = <<>>
       /\ pc \in {"rejected", "return"} /\ batch = <<>>
          => /\ StoreUntouched
             /\ browser.launches = 0
             /\ pc' = "exited"
             /\ exitCode' = IF pc = "rejected" THEN 1 ELSE 0]_vars

\* the query of a second run has failed, after a first run that wrote
C11_Witness ==
    /\ pc = "rejected" /\ batch = <<>> /\ runs = 2
    /\ browser.launches = 0
    /\ versions # <<>>

\* the loop body is at work, or the loop is over and the browser is not closed
LoopOrClose == InLoop \/ pc = "close"

(***************************************************************************)
(* C12.  Once the loop over the batch is entered (configuration present,   *)
(* query succeeded, browser and page obtained) no step of a document,      *)
(* failing or not, rejects the run: the loop only leads to the close of    *)
(* the browser, a close that succeeds leads to the return of main(), and   *)
(* main() returning ends the process with exit code 0, whatever status     *)
(* the documents were left with.                                           *)
(***************************************************************************)
C12_DocumentFailuresKeepExitZero ==
    [][/\ InLoop => LoopOrClose'
       /\ pc = "close" /\ ~CallFails => pc' = "return"
       /\ pc = "return" => pc' = "exited" /\ exitCode' = 0]_vars

\* a run returns after a document of its batch failed and was marked error,
\* and another failed and could not even be marked
C12_Witness ==
    /\ pc = "return"
    /\ budget = 0
    /\ \E i, j \in 1..Len(batch) :
          /\ docs[batch[i].id].status = "error"
          /\ docs[batch[j].id].status = "pending"

(***************************************************************************)
(* C13.  While the documents of a batch are processed exactly one browser  *)
(* has been launched and one page opened in this run, and the browser is   *)
(* open; the browser changes only at launch, newPage and close (and when   *)
(* the process ends); close is called only with the loop past the last     *)
(* document, on an open browser not closed before; once closed the browser *)
(* has been closed exactly once and the only step left is the end of the   *)
(* process.  Every document being processed leads to the call of close.    *)
(***************************************************************************)
C13_OneBrowserClosedOnce ==
    /\ [][/\ InLoop
             => browser = [state |-> "open", launches |-> 1, pages |-> 1,
                           closes |-> 0]
          /\ browser' # browser
             => pc \in {"launch", "newPage", "close", "return", "rejected"}
          /\ pc = "launch" => idx = 0 /\ browser.launches = 0
          /\ pc = "newPage" => idx = 0 /\ browser.pages = 0
          /\ pc = "close"
             => /\ idx = Len(batch) + 1
                /\ browser = [state |-> "open", launches |-> 1, pages |-> 1,
                              closes |-> 0]
                /\ pc' = "return"
                   => browser' = [state |-> "closed", launches |-> 1,
                                  pages |-> 1, closes |-> 1]
          /\ browser.state = "closed"
             => pc = "return" /\ pc' = "exited" /\ StoreUntouched]_vars
    /\ (InLoop ~> pc = "close")

\* the browser is closed after a run in which both documents failed
C13_Witness ==
    /\ browser = [state |-> "closed", launches |-> 1, pages |-> 1,
                  closes |-> 1]
    /\ Len(batch) = NumDocs
    /\ \A i \in 1..Len(batch) : docs[batch[i].id].status = "error"

(***************************************************************************)
(* C14.  When a version row is inserted, the document row it belongs to    *)
(* holds, at that moment, the same version number, content_hash,           *)
(* full_text and snapshot_path as the inserted row.                        *)
(***************************************************************************)
C14_VersionRowMatchesDocumentRow ==
    [][Len(versions') > Len(versions)
       => LET r == versions'[Len(versions')]
              d == docs'[r.reg_document_id]
          IN  /\ d.latest_version = r.version
              /\ d.content_hash = r.content_hash
              /\ d.full_text = r.full_text
              /\ d.snapshot_path = r.snapshot_path]_vars

\* the ids of the rows of the fetched batch
BatchIds == {batch[i].id : i \in 1..Len(batch)}

(***************************************************************************)
(* C15.  A step of the job keeps every document row in the table and       *)
(* every existing version row as it is (version rows are only appended);   *)
(* a document row it changes is the row of the document being processed,   *)
(* which is in the fetched batch, keeps its id, and gets status active or  *)
(* error.                                                                  *)
(***************************************************************************)
C15_WritesConfined ==
    [][JobStep
       => /\ DOMAIN docs' = DOMAIN docs
          /\ Len(versions') >= Len(versions)
          /\ SubSeq(versions', 1, Len(versions)) = versions
          /\ \A id \in Ids :
                docs'[id] # docs[id]
                => /\ InLoop
                   /\ id = Doc.id
                   /\ id \in BatchIds
                   /\ docs'[id].id = id
                   /\ docs'[id].status \in {"active", "error"}]_vars

\* a second run has marked a document of its batch as error while the other
\* document, captured by the first run, is outside the batch
C15_Witness ==
    /\ runs = 2
    /\ pc = "close"
    /\ \E id \in BatchIds : docs[id].status = "error"
    /\ \E id \in Ids \ BatchIds :
          docs[id].status = "active" /\ RowsOf(id) # <<>>

\* every step of the iteration that ends succeeded
AllStepsSucceeded ==
    \/ pc = "touch" /\ ~CallFails
    \/ pc = "insertVersion" /\ ~UpdateRefused /\ ~InsertRefused

(***************************************************************************)
(* C16.  When the processing of a document ends (the error-status write,   *)
(* when attempted, being accepted), the document is active or error, and   *)
(* active exactly when every step of its processing succeeded; and no      *)
(* step of the job takes a document from active to another status.         *)
(***************************************************************************)
C16_BatchLeftActiveOrError ==
    [][/\ IterationEnds /\ ~ErrorWriteRefused
          => /\ docs'[Doc.id].status \in {"active", "error"}
             /\ docs'[Doc.id].status = "active" <=> AllStepsSucceeded
       /\ JobStep
          => \A id \in Ids : docs[id].status = "active"
                             => docs'[id].status = "active"]_vars

(***************************************************************************)
(* C17.  Every step of the job that changes a document row sets the row's  *)
(* updated_at to the time of the write.                                    *)
(***************************************************************************)
C17_EveryWriteRefreshesUpdatedAt ==
    [][JobStep
       => \A id \in Ids : docs'[id] # docs[id]
                          => docs'[id].updated_at = now]_vars

(***************************************************************************)
(* C18.  No step overwrites the object stored at the snapshot_path of an   *)
(* existing version row.                                                   *)
(***************************************************************************)
C18_CapturedSnapshotImmutable ==
    [][\A k \in 1..Len(versions) :
          versions[k].snapshot_path \in DOMAIN storage
          => storage'[versions[k].snapshot_path]
                = storage[versions[k].snapshot_path]]_vars

(***************************************************************************)
(* C19.  Every document row that has a snapshot_path has the path          *)
(* "{its id}/v{its latest_version}/snapshot.pdf", and every version row    *)
(* has the path "{its document's id}/v{its version}/snapshot.pdf".         *)
(***************************************************************************)
C19_SnapshotPathKeyed ==
    /\ \A id \in Ids :
          docs[id].snapshot_path # NoPath
          => docs[id].snapshot_path
                = <<id, "/v", docs[id].latest_version, "/snapshot.pdf">>
    /\ \A k \in 1..Len(versions) :
          versions[k].snapshot_path
             = <<versions[k].reg_document_id, "/v", versions[k].version,
                 "/snapshot.pdf">>

\* a document has been captured twice: it is at version 2 with two rows
C19_Witness ==
    \E id \in Ids :
       /\ docs[id].latest_version = 2
       /\ docs[id].snapshot_path # NoPath
       /\ Len(RowsOf(id)) = 2

(***************************************************************************)
(* C20.  The loop is on one document of the batch at a time: the           *)
(* navigation for a document begins only when the page has just been       *)
(* opened (first document) or when the processing of the previous          *)
(* document has ended with its last store operation; the loop position     *)
(* moves forward by exactly one, the locals of the body being dropped;     *)
(* whatever the body writes (document row, version row, snapshot object)   *)
(* belongs to the document the loop is on; and the rows of the batch have  *)
(* distinct ids, so that no document is attempted twice in a run.          *)
(***************************************************************************)
C20_OneDocumentAtATime ==
    [][JobStep
       => /\ InLoop => idx \in 1..Len(batch)
          /\ \A i, j \in 1..Len(batch) : batch[i].id = batch[j].id => i = j
          /\ pc' = "goto"
             => \/ pc = "newPage" /\ idx' = 1
                \/ /\ pc \in {"touch", "insertVersion", "catch"}
                   /\ idx' = idx + 1
                   /\ loc' = NoLocals
          /\ InLoop /\ pc' # "goto" /\ pc' # "close" => idx' = idx
          /\ \A id \in Ids : docs'[id] # docs[id] => InLoop /\ id = Doc.id
          /\ Len(versions') > Len(versions)
             => InLoop /\ versions'[Len(versions')].reg_document_id = Doc.id
          /\ \A p \in DOMAIN storage' :
                (p \notin DOMAIN storage \/ storage'[p] # storage[p])
                => InLoop /\ p[1] = Doc.id]_vars

\* the navigation for the second document is about to begin, the first
\* document having been captured in full
C20_Witness ==
    /\ pc = "goto"
    /\ idx = 2
    /\ docs[batch[1].id].status = "active"
    /\ RowsOf(batch[1].id) # <<>>
    /\ loc = NoLocals

====
